---- MODULE Spec2Model ----
(***************************************************************************)
(* load-rs: the goal registry (DefaultHolder), the goals that register in  *)
(* it (DefaultGoal, RootGoal) and the container that binds a root goal to  *)
(* a shared holder (GoalContainer).                                        *)
(*                                                                         *)
(* Every holder operation is an operator over a holder record, computed as *)
(* the Rust code computes it, and an action that applies it to the state   *)
(* and records the call and what it returned in ret.                       *)
(* sub_goal is modelled a second time statement by statement, on threads   *)
(* that share the holder's RwLock.                                         *)
(***************************************************************************)
EXTENDS Integers, Sequences, FiniteSets, TLC

\* ------------------------------------------------------------- bounds
\* Identifiers the holder may hand out: add_goal is not called once
\* next_id has passed MaxId.  Parent identifiers of goals are drawn from
\* 1..MaxId as well.
MaxId == 3

\* Goal names used as inputs.
Names == {"build", "compile", "test"}

\* Threads that call sub_goal on goals sharing the holder.
NumThreads == 2

Threads == 1..NumThreads

\* The names the threads spawn children with.
SpawnNames == {"compile", "test"}

\* The names registered under StatusSpec, where every goal also carries a
\* status.
StatusNames == {"build", "compile"}

\* ------------------------------------------------------------- values
\* goal.rs: GoalId::NONE, the sentinel "no identity".
NONE == 0

GoalId_from(u) == u

\* The identifiers calls are made with: NONE, which the holder never hands
\* out, and every identifier it may hand out.
Ids == 0..MaxId

Waiting == <<"Waiting">>

InProgress == <<"InProgress">>

Finished(outcome) == <<"Finished", outcome>>

Outcomes == {"Skipped", "Success", "Failed"}

Statuses == {Waiting, InProgress} \cup {Finished(o) : o \in Outcomes}

MissingGoal(id) == <<"MissingGoal", id>>

MissingGoalName(name) == <<"MissingGoalName", name>>

\* Result::Ok, Result::Err, Option::Some, Option::None, a plain return value,
\* and a panic (the call does not return).
Ok(v) == <<"Ok", v>>

Err(e) == <<"Err", e>>

Some(v) == <<"Some", v>>

None == <<"None">>

Ret(v) == <<"Ret", v>>

Panic(msg) == <<"Panic", msg>>

IsOk(r) == r[1] = "Ok"

IsErr(r) == r[1] = "Err"

IsPanic(r) == r[1] = "Panic"

\* ------------------------------------------------------------- state
VARIABLES
  name_to_id,         \* DefaultHolder.name_to_id: HashMap<String, GoalId>
  all_ids,            \* DefaultHolder.all_ids: HashSet<GoalId>
  goal_id_to_status,  \* DefaultHolder.goal_id_to_status: HashMap<GoalId, Status>
  default_status,     \* DefaultHolder.default_status
  next_id,            \* DefaultHolder.next_id
  goal_graph,         \* DefaultHolder.goal_graph: DiGraphMap<GoalId, ()>
  root_goal,          \* GoalContainer.root_goal
  poisoned,           \* the RwLock around the holder is poisoned
  rwlock,             \* the RwLock around the holder: [readers, writer], the threads holding a guard
  pc,                 \* thread -> where its sub_goal call stands
  child,              \* thread -> the goal its sub_goal call has built (None outside a call)
  overtaken,          \* history: thread -> inside a call, and another goal was registered since the thread built its child
  raced,              \* history: the thread that ran add_goal last inside sub_goal was overtaken
  ret,                \* the last call: [op, args, val, handled]
  assigned,           \* history: [name, id, goal] for every add_goal that returned id
  stored              \* history: id -> status of the latest set_goal_status that returned Ok

vars == <<name_to_id, all_ids, goal_id_to_status, default_status, next_id,
          goal_graph, root_goal, poisoned, rwlock, pc, child, overtaken, raced,
          ret, assigned, stored>>

threadVars == <<rwlock, pc, child, overtaken, raced>>

\* The holder as one value, for the operators below.
Holder ==
  [name_to_id |-> name_to_id, all_ids |-> all_ids,
   goal_id_to_status |-> goal_id_to_status, default_status |-> default_status,
   next_id |-> next_id, goal_graph |-> goal_graph]

SetHolder(h) ==
  /\ name_to_id' = h.name_to_id
  /\ all_ids' = h.all_ids
  /\ goal_id_to_status' = h.goal_id_to_status
  /\ default_status' = h.default_status
  /\ next_id' = h.next_id
  /\ goal_graph' = h.goal_graph

EmptyMap == [x \in {} |-> NONE]

\* ------------------------------------------------------------- goals
\* DefaultGoal::new: a goal that is not registered yet (my_id = NONE).
DefaultGoal_new(name, parent) ==
  IF name = "" THEN Panic("Must have a name")
  ELSE IF parent = NONE THEN Panic("Must have a parent goal")
  ELSE Ret([kind |-> "DefaultGoal", name |-> name, parent_goal |-> parent,
            my_id |-> NONE, child_goals |-> <<>>])

\* RootGoal::new(name, holder): the dedicated root constructor.
RootGoal_new(name) ==
  Ret([kind |-> "RootGoal", name |-> name, parent_goal |-> NONE,
       my_id |-> NONE, child_goals |-> <<>>])

\* <RootGoal as Goal>::new: the generic constructor is refused.
RootGoal_Goal_new(name, parent) == Panic("Can not create a new RootGoal")

\* G::new of a Goal implementation outside the crate (the trait is public and
\* sub_goal takes any G: Goal<Holder>): it keeps the name and the parent it
\* is given, as DefaultGoal::new does, and refuses neither.
UserGoal_new(name, parent) ==
  Ret([kind |-> "UserGoal", name |-> name, parent_goal |-> parent,
       my_id |-> NONE, child_goals |-> <<>>])

\* G::new, by the type G.
Goal_new(kind, name, parent) ==
  IF kind = "RootGoal" THEN RootGoal_Goal_new(name, parent)
  ELSE IF kind = "UserGoal" THEN UserGoal_new(name, parent)
  ELSE DefaultGoal_new(name, parent)

\* The two goal types of the crate.
GoalKinds == {"DefaultGoal", "RootGoal"}

\* The types G the threads call sub_goal with: one whose constructor refuses
\* the parent sub_goal passes, and one whose constructor returns.
SpawnKinds == {"DefaultGoal", "UserGoal"}

\* Goal::parent_goal: None for a RootGoal, Some(parent) for the others.
parent_goal(goal) ==
  IF goal.kind = "RootGoal" THEN None ELSE Some(goal.parent_goal)

\* Goal::child_goals
child_goals(goal) == goal.child_goals

\* Every goal value the constructors can build from the input sets.
Goals ==
  {RootGoal_new(n)[2] : n \in Names}
    \cup {DefaultGoal_new(n, p)[2] : n \in Names, p \in 1..MaxId}

\* The goals used under StatusSpec: root goals and goals whose parent is the
\* first identifier.
StatusGoals ==
  {RootGoal_new(n)[2] : n \in StatusNames}
    \cup {DefaultGoal_new(n, 1)[2] : n \in StatusNames}

\* ------------------------------------------------------------- graph
\* petgraph DiGraphMap, as holder.rs uses it: a set of nodes and a set of
\* directed edges <<from, to>>; add_edge inserts missing endpoints.
EmptyGraph == [nodes |-> {}, edges |-> {}]

add_node(g, n) == [g EXCEPT !.nodes = @ \cup {n}]

add_edge(g, a, b) ==
  [nodes |-> g.nodes \cup {a, b}, edges |-> g.edges \cup {<<a, b>>}]

contains_node(g, n) == n \in g.nodes

neighbors_directed(g, n, dir) ==
  IF dir = "Incoming" THEN {e[1] : e \in {x \in g.edges : x[2] = n}}
  ELSE {e[2] : e \in {x \in g.edges : x[1] = n}}

\* ------------------------------------------------------------- holder
\* The holder before any registration: nothing registered, the counter at 1
\* (0 is the sentinel), absent statuses read as Waiting.
HolderNew ==
  [name_to_id |-> EmptyMap, all_ids |-> {}, goal_id_to_status |-> EmptyMap,
   default_status |-> Waiting, next_id |-> 1, goal_graph |-> EmptyGraph]

\* add_goal's loop over goal.child_goals(): one edge goal_id -> c_id each.
RECURSIVE add_child_edges(_, _, _)
add_child_edges(g, goal_id, children) ==
  IF children = <<>> THEN g
  ELSE add_child_edges(add_edge(g, goal_id, Head(children)), goal_id,
                       Tail(children))

\* add_goal without "self.next_id += 1": the counter stays where it was.
add_goal_no_advance(h, goal) ==
  LET goal_id == GoalId_from(h.next_id) IN
  IF goal.name \in DOMAIN h.name_to_id
  THEN [holder |-> h, val |-> Panic("Goal Already Exists")]
  ELSE
    LET h2 == [h EXCEPT !.name_to_id = (goal.name :> goal_id) @@ @]
        g1 == add_node(h2.goal_graph, goal_id)
        p == parent_goal(goal)
        g2 == IF p # None THEN add_edge(g1, p[2], goal_id) ELSE g1
        g3 == add_child_edges(g2, goal_id, child_goals(goal))
    IN [holder |-> [h2 EXCEPT !.goal_graph = g3], val |-> Ret(goal_id)]

\* add_goal with HashMap::insert in place of the entry match: a name that
\* is already registered is mapped to the new identifier.
add_goal_overwrite(h, goal) ==
  LET nid == h.next_id
      h1 == [h EXCEPT !.next_id = nid + 1]
      goal_id == GoalId_from(nid)
      h2 == [h1 EXCEPT !.name_to_id = (goal.name :> goal_id) @@ @]
      g1 == add_node(h2.goal_graph, goal_id)
      p == parent_goal(goal)
      g2 == IF p # None THEN add_edge(g1, p[2], goal_id) ELSE g1
      g3 == add_child_edges(g2, goal_id, child_goals(goal))
  IN [holder |-> [h2 EXCEPT !.goal_graph = g3], val |-> Ret(goal_id)]

\* add_goal without the edge from the goal's parent.
add_goal_no_parent_edge(h, goal) ==
  LET nid == h.next_id
      h1 == [h EXCEPT !.next_id = nid + 1]
      goal_id == GoalId_from(nid)
  IN
  IF goal.name \in DOMAIN h1.name_to_id
  THEN [holder |-> h1, val |-> Panic("Goal Already Exists")]
  ELSE
    LET h2 == [h1 EXCEPT !.name_to_id = (goal.name :> goal_id) @@ @]
        g1 == add_node(h2.goal_graph, goal_id)
        g3 == add_child_edges(g1, goal_id, child_goals(goal))
    IN [holder |-> [h2 EXCEPT !.goal_graph = g3], val |-> Ret(goal_id)]

\* DefaultHolder::add_goal.  [holder: the holder afterwards, val: Ret(id) or
\* Panic].  The counter is advanced before the name is looked up, so a
\* rejected goal uses up an identifier.
add_goal(h, goal) ==
  LET nid == h.next_id
      h1 == [h EXCEPT !.next_id = nid + 1]
      goal_id == GoalId_from(nid)
  IN
  IF goal.name \in DOMAIN h1.name_to_id
  THEN [holder |-> h1, val |-> Panic("Goal Already Exists")]
  ELSE
    LET h2 == [h1 EXCEPT !.name_to_id = (goal.name :> goal_id) @@ @]
        g1 == add_node(h2.goal_graph, goal_id)
        p == parent_goal(goal)
        g2 == IF p # None THEN add_edge(g1, p[2], goal_id) ELSE g1
        g3 == add_child_edges(g2, goal_id, child_goals(goal))
    IN [holder |-> [h2 EXCEPT !.goal_graph = g3], val |-> Ret(goal_id)]

\* DefaultHolder::get_goal_outcome
get_goal_outcome(h, id) ==
  IF id \in h.all_ids
  THEN Ok(IF id \in DOMAIN h.goal_id_to_status THEN h.goal_id_to_status[id]
          ELSE h.default_status)
  ELSE Err(MissingGoal(id))

\* DefaultHolder::get_goal_id
get_goal_id(h, name) ==
  IF name \in DOMAIN h.name_to_id THEN Ok(h.name_to_id[name])
  ELSE Err(MissingGoalName(name))

\* set_goal_status telling the handler before it writes: the handler gets the
\* status the goal had until then.
set_goal_status_notify_first(h, goal, status) ==
  LET r == get_goal_id(h, goal.name) IN
  IF IsErr(r) THEN [holder |-> h, val |-> r, handled |-> <<>>]
  ELSE
    LET id == r[2]
        before == IF id \in DOMAIN h.goal_id_to_status
                  THEN h.goal_id_to_status[id] ELSE h.default_status
        h1 == [h EXCEPT !.goal_id_to_status = (id :> status) @@ @]
    IN [holder |-> h1, val |-> Ok(<<>>),
        handled |-> <<<<goal.name, before>>>>]

\* DefaultHolder::set_goal_status.  [holder, val, handled]: handled is the
\* sequence of handle_goal_status_change(goal, status) calls it made on
\* goal_handler, an observer whose own state the holder does not read.
set_goal_status(h, goal, status) ==
  LET r == get_goal_id(h, goal.name) IN
  IF IsErr(r) THEN [holder |-> h, val |-> r, handled |-> <<>>]
  ELSE
    LET id == r[2]
        h1 == [h EXCEPT !.goal_id_to_status = (id :> status) @@ @]
    IN [holder |-> h1, val |-> Ok(<<>>),
        handled |-> <<<<goal.name, h1.goal_id_to_status[id]>>>>]

\* DefaultHolder::all_goals
all_goals(h) == Ret(h.all_ids)

\* DefaultHolder::get_parent
get_parent(h, id) ==
  IF ~contains_node(h.goal_graph, id) THEN Err(MissingGoal(id))
  ELSE
    LET result == neighbors_directed(h.goal_graph, id, "Incoming") IN
    IF Cardinality(result) > 1
    THEN Panic("Can not have more than one parent")
    ELSE IF result = {} THEN Panic("removal index (is 0) should be < len (is 0)")
    ELSE Ok(CHOOSE p \in result : TRUE)

\* DefaultHolder::get_direct_children
get_direct_children(h, id) ==
  IF ~contains_node(h.goal_graph, id) THEN Err(MissingGoal(id))
  ELSE Ok(neighbors_directed(h.goal_graph, id, "Outgoing"))

\* The order in which a HashSet is iterated is not specified: ord, a
\* sequence holding every identifier once, stands for it.
Ascending == [i \in 1..MaxId |-> i]

Descending == [i \in 1..MaxId |-> MaxId + 1 - i]

\* The orders a traversal is run with.
StackOrders == {Ascending, Descending}

\* The orders a loop that stops at the first hit is run with: the rotations
\* of 1..MaxId, so that every member of a set comes first in some order, and
\* the descending order.
Orders ==
  {[i \in 1..MaxId |-> ((i + k - 2) % MaxId) + 1] : k \in 1..MaxId}
    \cup {Descending}

RECURSIVE IterOrder(_, _)
IterOrder(set, ord) ==
  IF ord = <<>> THEN <<>>
  ELSE IF Head(ord) \in set THEN <<Head(ord)>> \o IterOrder(set, Tail(ord))
  ELSE IterOrder(set, Tail(ord))

\* The while-let loop of get_all_children: pop, skip a visited id, add the
\* id to the output, push its direct children, mark it visited.
RECURSIVE get_all_children_loop(_, _, _, _, _)
get_all_children_loop(h, id_stack, visited, output, ord) ==
  IF id_stack = <<>> THEN Ok(output)
  ELSE
    LET id == id_stack[Len(id_stack)]
        rest == SubSeq(id_stack, 1, Len(id_stack) - 1)
    IN
    IF id \in visited THEN get_all_children_loop(h, rest, visited, output, ord)
    ELSE
      LET dc == get_direct_children(h, id) IN
      IF IsErr(dc) THEN dc
      ELSE get_all_children_loop(h, rest \o IterOrder(dc[2], ord),
                                 visited \cup {id}, output \cup {id}, ord)

\* get_all_children without the stack: the id and its direct children only.
get_all_children_shallow(h, id, ord) ==
  LET dc == get_direct_children(h, id) IN
  IF IsErr(dc) THEN dc ELSE Ok({id} \cup dc[2])

\* GoalHolder::get_all_children
get_all_children(h, id, ord) == get_all_children_loop(h, <<id>>, {}, {}, ord)

\* The for loop of all_children_finished over the children still to visit.
RECURSIVE all_children_finished_loop(_, _)
all_children_finished_loop(h, children) ==
  IF children = <<>> THEN Ok(TRUE)
  ELSE
    LET outcome == get_goal_outcome(h, Head(children)) IN
    IF IsErr(outcome) THEN outcome
    ELSE IF outcome[2][1] = "Finished"
         THEN all_children_finished_loop(h, Tail(children))
    ELSE Ok(FALSE)

\* GoalHolder::all_children_finished
all_children_finished(h, id, ord) ==
  LET children == get_all_children(h, id, ord) IN
  IF IsErr(children) THEN children
  ELSE all_children_finished_loop(h, IterOrder(children[2], ord))

\* The for loop of any_child_errored.
RECURSIVE any_child_errored_loop(_, _)
any_child_errored_loop(h, children) ==
  IF children = <<>> THEN Ok(FALSE)
  ELSE
    LET outcome == get_goal_outcome(h, Head(children)) IN
    IF IsErr(outcome) THEN outcome
    ELSE IF outcome[2] = Finished("Failed") THEN Ok(TRUE)
    ELSE any_child_errored_loop(h, Tail(children))

\* GoalHolder::any_child_errored
any_child_errored(h, id, ord) ==
  LET children == get_all_children(h, id, ord) IN
  IF IsErr(children) THEN children
  ELSE any_child_errored_loop(h, IterOrder(children[2], ord))

\* ------------------------------------------------------------- goal.rs, view.rs
\* DefaultGoal::sub_goal (RootGoal::sub_goal forwards to it).  kind is the
\* type parameter G.  [holder, poisoned, val]: the child is built with
\* self.my_id as its parent, the holder is read-locked and released, then
\* write-locked for add_goal; a panic under the write lock poisons it.  A
\* configuration callback gets the child as &mut G, whose name, parent and
\* children it has no means to change, so it is left out.
sub_goal(h, pois, self, name, kind) ==
  LET made == Goal_new(kind, name, self.my_id) IN
  IF IsPanic(made) THEN [holder |-> h, poisoned |-> pois, val |-> made]
  ELSE IF pois
  THEN [holder |-> h, poisoned |-> pois,
        val |-> Panic("Failed to get holder (poisoned)")]
  ELSE
    LET goal == made[2]
        r == add_goal(h, goal)
    IN
    IF IsPanic(r.val)
    THEN [holder |-> r.holder, poisoned |-> TRUE, val |-> r.val]
    ELSE [holder |-> r.holder, poisoned |-> pois, val |-> Ret(goal)]

\* DefaultGoal::finish (RootGoal::finish forwards to it; fail, succeed and
\* skip call it with a Finished status): its body is todo!().
finish(h, goal, outcome) ==
  [holder |-> h, val |-> Panic("not yet implemented")]

\* RwLock::new: no guard is out.
RwLock_new == [readers |-> {}, writer |-> {}]

\* RwLock::read and RwLock::write return once the guard can be handed out: a
\* read guard while no write guard is out, a write guard while no guard is.
can_read(l) == l.writer = {}

can_write(l) == l.writer = {} /\ l.readers = {}

\* read() and write() on a poisoned lock returning the guard all the same.
lock_result_ignoring_poison(pois, guard) == Ok(guard)

\* What read() and write() return once they return: the guard, or the
\* PoisonError that expect("Failed to get holder (poisoned)") panics on.
lock_result(pois, guard) == IF pois THEN Err("PoisonError") ELSE Ok(guard)

\* drop(holder_guard) with the guard still held afterwards.
drop_holder_guard_kept(l, t) == l

\* drop(holder_guard), the read guard of thread t.
drop_holder_guard(l, t) == [l EXCEPT !.readers = @ \ {t}]

\* A write guard that is still held after it went out of scope.
drop_write_guard_kept(l, t) == l

\* A write guard going out of scope, at the return or while a panic unwinds.
drop_write_guard(l, t) == [l EXCEPT !.writer = @ \ {t}]

\* GoalContainer::all_goals: read lock, root name lookup, traversal, each
\* unwrapped.
container_all_goals(h, pois, root, ord) ==
  IF pois THEN Panic("unwrap on Err: PoisonError")
  ELSE
    LET goal_id == get_goal_id(h, root.name) IN
    IF IsErr(goal_id)
    THEN Panic("unwrap on Err: MissingGoalName")
    ELSE
      LET all == get_all_children(h, goal_id[2], ord) IN
      IF IsErr(all)
      THEN Panic("unwrap on Err: MissingGoal")
      ELSE Ret(all[2])

\* ------------------------------------------------------------- actions
Call(op, args, val) ==
  [op |-> op, args |-> args, val |-> val, handled |-> <<>>]

\* GoalContainer::new(name, holder) on a fresh holder.
Init ==
  /\ name_to_id = HolderNew.name_to_id
  /\ all_ids = HolderNew.all_ids
  /\ goal_id_to_status = HolderNew.goal_id_to_status
  /\ default_status = HolderNew.default_status
  /\ next_id = HolderNew.next_id
  /\ goal_graph = HolderNew.goal_graph
  /\ root_goal = RootGoal_new("build")[2]
  /\ poisoned = FALSE
  /\ rwlock = RwLock_new
  /\ pc = [t \in Threads |-> "idle"]
  /\ child = [t \in Threads |-> None]
  /\ overtaken = [t \in Threads |-> FALSE]
  /\ raced = FALSE
  /\ ret = Call("GoalContainer::new", <<"build">>, Ret(<<>>))
  /\ assigned = {}
  /\ stored = EmptyMap

\* A history entry: goal was registered and add_goal returned id for it.
Registered(goal, id) == [name |-> goal.name, id |-> id, goal |-> goal]

holderVars ==
  <<name_to_id, all_ids, goal_id_to_status, default_status, next_id, goal_graph>>

\* holder.add_goal(&goal)
AddGoal ==
  \E goal \in Goals :
    /\ next_id <= MaxId
    /\ LET r == add_goal(Holder, goal) IN
         /\ SetHolder(r.holder)
         /\ ret' = Call("add_goal", <<goal>>, r.val)
         /\ assigned' = IF r.val[1] = "Ret"
                        THEN assigned \cup {Registered(goal, r.val[2])}
                        ELSE assigned
    /\ UNCHANGED <<root_goal, threadVars, poisoned, stored>>

\* holder.add_goal(&goal), the goal drawn from StatusGoals
StatusAddGoal ==
  \E goal \in StatusGoals :
    /\ next_id <= MaxId
    /\ LET r == add_goal(Holder, goal) IN
         /\ SetHolder(r.holder)
         /\ ret' = Call("add_goal", <<goal>>, r.val)
         /\ assigned' = IF r.val[1] = "Ret"
                        THEN assigned \cup {Registered(goal, r.val[2])}
                        ELSE assigned
    /\ UNCHANGED <<root_goal, threadVars, poisoned, stored>>

\* holder.set_goal_status(&goal, status)
SetGoalStatus ==
  \E goal \in StatusGoals, status \in Statuses :
    LET r == set_goal_status(Holder, goal, status) IN
      /\ SetHolder(r.holder)
      /\ ret' = [Call("set_goal_status", <<goal.name, status>>, r.val)
                   EXCEPT !.handled = r.handled]
      /\ stored' = IF IsOk(r.val)
                   THEN (name_to_id[goal.name] :> status) @@ stored
                   ELSE stored
      /\ UNCHANGED <<root_goal, threadVars, poisoned, assigned>>

\* goal.fail(error), goal.succeed(), goal.skip(): goal.finish(Finished(..))
Finish ==
  \E goal \in StatusGoals, outcome \in Outcomes :
    LET r == finish(Holder, goal, Finished(outcome)) IN
      /\ SetHolder(r.holder)
      /\ ret' = Call("finish", <<goal.name, Finished(outcome)>>, r.val)
      /\ UNCHANGED <<root_goal, threadVars, poisoned, assigned, stored>>

\* The calls below take &self: only ret changes.
GetGoalOutcome ==
  \E id \in Ids :
    /\ ret' = Call("get_goal_outcome", <<id>>, get_goal_outcome(Holder, id))
    /\ UNCHANGED <<holderVars, root_goal, threadVars, poisoned, assigned, stored>>

GetGoalId ==
  \E name \in Names :
    /\ ret' = Call("get_goal_id", <<name>>, get_goal_id(Holder, name))
    /\ UNCHANGED <<holderVars, root_goal, threadVars, poisoned, assigned, stored>>

AllGoals ==
  /\ ret' = Call("all_goals", <<>>, all_goals(Holder))
  /\ UNCHANGED <<holderVars, root_goal, threadVars, poisoned, assigned, stored>>

GetParent ==
  \E id \in Ids :
    /\ ret' = Call("get_parent", <<id>>, get_parent(Holder, id))
    /\ UNCHANGED <<holderVars, root_goal, threadVars, poisoned, assigned, stored>>

GetDirectChildren ==
  \E id \in Ids :
    /\ ret' = Call("get_direct_children", <<id>>,
                   get_direct_children(Holder, id))
    /\ UNCHANGED <<holderVars, root_goal, threadVars, poisoned, assigned, stored>>

GetAllChildren ==
  \E id \in Ids, ord \in StackOrders :
    /\ ret' = Call("get_all_children", <<id>>,
                   get_all_children(Holder, id, ord))
    /\ UNCHANGED <<holderVars, root_goal, threadVars, poisoned, assigned, stored>>

AllChildrenFinished ==
  \E id \in Ids, ord \in Orders :
    /\ ret' = Call("all_children_finished", <<id>>,
                   all_children_finished(Holder, id, ord))
    /\ UNCHANGED <<holderVars, root_goal, threadVars, poisoned, assigned, stored>>

AnyChildErrored ==
  \E id \in Ids, ord \in Orders :
    /\ ret' = Call("any_child_errored", <<id>>,
                   any_child_errored(Holder, id, ord))
    /\ UNCHANGED <<holderVars, root_goal, threadVars, poisoned, assigned, stored>>

\* self.sub_goal::<G, _>(name, None), on the container's root goal or on a
\* goal built by DefaultGoal::new; the call reads self.my_id and the holder.
SubGoal ==
  \E self \in {root_goal, DefaultGoal_new("compile", 1)[2]},
     name \in Names \cup {""}, kind \in GoalKinds :
    LET r == sub_goal(Holder, poisoned, self, name, kind) IN
      /\ SetHolder(r.holder)
      /\ poisoned' = r.poisoned
      /\ ret' = Call("sub_goal", <<self.my_id, name, kind>>, r.val)
      /\ assigned' = IF r.val[1] = "Ret"
                     THEN assigned \cup
                            {Registered(r.val[2], r.holder.name_to_id[name])}
                     ELSE assigned
      /\ UNCHANGED <<root_goal, threadVars, stored>>

\* container.all_goals()
ContainerAllGoals ==
  \E ord \in StackOrders :
    /\ ret' = Call("GoalContainer::all_goals", <<>>,
                   container_all_goals(Holder, poisoned, root_goal, ord))
    /\ UNCHANGED <<holderVars, root_goal, threadVars, poisoned, assigned, stored>>

\* ---- sub_goal, statement by statement, on threads that share the holder.
\* Each thread calls sub_goal on a goal of its own (the call takes &mut self);
\* my_id of every goal is NONE.  A call that panics ends; the thread is then
\* free for another call, as a newly spawned thread would be.
SubGoalDone(t, val) ==
  /\ pc' = [pc EXCEPT ![t] = "idle"]
  /\ child' = [child EXCEPT ![t] = None]
  /\ overtaken' = [overtaken EXCEPT ![t] = FALSE]
  /\ ret' = Call("sub_goal", <<NONE, child[t].name, child[t].kind>>, val)

\* let mut goal = G::new(name, &self.my_id, &self.holder);
StartSubGoal(t) ==
  \E self \in {root_goal, DefaultGoal_new("compile", 1)[2]},
     name \in SpawnNames, kind \in SpawnKinds :
    /\ pc[t] = "idle"
    /\ next_id + Cardinality({u \in Threads : pc[u] # "idle"}) <= MaxId
    /\ LET made == Goal_new(kind, name, self.my_id) IN
         IF IsPanic(made)
         THEN /\ ret' = Call("sub_goal", <<self.my_id, name, kind>>, made)
              /\ UNCHANGED <<pc, child>>
         ELSE /\ pc' = [pc EXCEPT ![t] = "read"]
              /\ child' = [child EXCEPT ![t] = made[2]]
              /\ UNCHANGED ret
    /\ UNCHANGED <<holderVars, root_goal, poisoned, rwlock, overtaken, raced,
                   assigned, stored>>

\* let holder_guard = self.holder.read().expect("Failed to get holder (poisoned)");
ReadHolder(t) ==
  /\ pc[t] = "read"
  /\ can_read(rwlock)
  /\ IF IsErr(lock_result(poisoned, t))
     THEN /\ SubGoalDone(t, Panic("Failed to get holder (poisoned)"))
          /\ UNCHANGED rwlock
     ELSE /\ rwlock' = [rwlock EXCEPT !.readers = @ \cup {t}]
          /\ pc' = [pc EXCEPT ![t] = "configure"]
          /\ UNCHANGED <<child, overtaken, ret>>
  /\ UNCHANGED <<holderVars, root_goal, poisoned, raced, assigned, stored>>

\* match configure.into() { .. (configure_func)(holder, &mut goal) }: the
\* callback gets the holder as &Holder and returns.
Configure(t) ==
  /\ pc[t] = "configure"
  /\ pc' = [pc EXCEPT ![t] = "drop"]
  /\ UNCHANGED <<holderVars, root_goal, poisoned, rwlock, child, overtaken,
                 raced, ret, assigned, stored>>

\* drop(holder_guard);
DropHolderGuard(t) ==
  /\ pc[t] = "drop"
  /\ rwlock' = drop_holder_guard(rwlock, t)
  /\ pc' = [pc EXCEPT ![t] = "write"]
  /\ UNCHANGED <<holderVars, root_goal, poisoned, child, overtaken, raced,
                 ret, assigned, stored>>

\* let mut holder = self.holder.write().expect("Failed to get holder (poisoned)");
WriteHolder(t) ==
  /\ pc[t] = "write"
  /\ can_write(rwlock)
  /\ IF IsErr(lock_result(poisoned, t))
     THEN /\ SubGoalDone(t, Panic("Failed to get holder (poisoned)"))
          /\ UNCHANGED rwlock
     ELSE /\ rwlock' = [rwlock EXCEPT !.writer = @ \cup {t}]
          /\ pc' = [pc EXCEPT ![t] = "add_goal"]
          /\ UNCHANGED <<child, overtaken, ret>>
  /\ UNCHANGED <<holderVars, root_goal, poisoned, raced, assigned, stored>>

\* holder.add_goal(&goal); a panic in it unwinds through the write guard,
\* which poisons the lock and releases it.
RegisterChild(t) ==
  /\ pc[t] = "add_goal"
  /\ LET r == add_goal(Holder, child[t]) IN
       /\ SetHolder(r.holder)
       /\ raced' = overtaken[t]
       /\ IF IsPanic(r.val)
          THEN /\ poisoned' = TRUE
               /\ rwlock' = drop_write_guard(rwlock, t)
               /\ SubGoalDone(t, r.val)
               /\ UNCHANGED assigned
          ELSE /\ assigned' = assigned \cup {Registered(child[t], r.val[2])}
               /\ pc' = [pc EXCEPT ![t] = "return"]
               /\ overtaken' = [u \in Threads |->
                                 overtaken[u] \/ (u # t /\ pc[u] # "idle")]
               /\ UNCHANGED <<poisoned, rwlock, child, ret>>
  /\ UNCHANGED <<root_goal, stored>>

\* goal: the write guard goes out of scope and the child is returned.
ReturnChild(t) ==
  /\ pc[t] = "return"
  /\ rwlock' = drop_write_guard(rwlock, t)
  /\ SubGoalDone(t, Ret(child[t]))
  /\ UNCHANGED <<holderVars, root_goal, poisoned, raced, assigned, stored>>

\* The registry and its graph: registration, lookups and traversals.
Next ==
  \/ AddGoal
  \/ GetGoalId
  \/ AllGoals
  \/ GetParent
  \/ GetDirectChildren
  \/ GetAllChildren
  \/ SubGoal
  \/ ContainerAllGoals

Spec == Init /\ [][Next]_vars

\* The status table: registration, status updates and the queries that read
\* statuses.
StatusNext ==
  \/ StatusAddGoal
  \/ SetGoalStatus
  \/ Finish
  \/ GetGoalOutcome
  \/ AllChildrenFinished
  \/ AnyChildErrored

StatusSpec == Init /\ [][StatusNext]_vars

\* sub_goal calls of the threads, interleaved statement by statement.
LockNext ==
  \/ \E t \in Threads : StartSubGoal(t)
  \/ \E t \in Threads : ReadHolder(t)
  \/ \E t \in Threads : Configure(t)
  \/ \E t \in Threads : DropHolderGuard(t)
  \/ \E t \in Threads : WriteHolder(t)
  \/ \E t \in Threads : RegisterChild(t)
  \/ \E t \in Threads : ReturnChild(t)

LockSpec == Init /\ [][LockNext]_vars

\* The statements of sub_goal that ask for a guard, and the others.
LockHolder(t) == ReadHolder(t) \/ WriteHolder(t)

RunSubGoal(t) ==
  Configure(t) \/ DropHolderGuard(t) \/ RegisterChild(t) \/ ReturnChild(t)

\* A thread inside sub_goal keeps running, and the lock is fair: a thread
\* that asks for a guard gets it if the guard can be handed out again and
\* again.  Nothing obliges a thread to start a call.
FairLockSpec ==
  /\ LockSpec
  /\ \A t \in Threads :
       /\ WF_vars(RunSubGoal(t))
       /\ SF_vars(LockHolder(t))

\* ------------------------------------------------------------- properties
\* The identifiers add_goal has returned.
AssignedIds == {a.id : a \in assigned}

\* The nodes reachable from the nodes of set over at most k edges.
RECURSIVE ReachWithin(_, _, _)
ReachWithin(g, set, k) ==
  IF k = 0 THEN set
  ELSE ReachWithin(g, set \cup {e[2] : e \in {x \in g.edges : x[1] \in set}},
                   k - 1)

\* id and every node reachable from it over parent-to-child edges.
Descendants(g, id) == ReachWithin(g, {id}, Cardinality(g.nodes \cup {id}))

\* The status a goal is meant to have: the latest one stored for it, Waiting
\* if none was.
StatusOf(id) == IF id \in DOMAIN stored THEN stored[id] ELSE Waiting

\* C1: every registered goal's name resolves, through get_goal_id, to the
\* identifier add_goal returned for it, and no two registered goals were
\* given the same identifier.
C1_NameResolvesToAssignedId ==
  /\ \A a \in assigned : get_goal_id(Holder, a.name) = Ok(a.id)
  /\ \A a, b \in assigned : a.id = b.id => a = b
  /\ (ret.op = "get_goal_id" /\ \E a \in assigned : a.name = ret.args[1])
       => \E a \in assigned : a.name = ret.args[1] /\ ret.val = Ok(a.id)

\* Two goals are registered, a rejected goal used up identifier 2 in
\* between, and get_goal_id has just resolved the name registered last to 3.
C1_Witness ==
  /\ Cardinality(assigned) = 2
  /\ next_id = 4
  /\ ret.op = "get_goal_id"
  /\ \E a \in assigned : a.id = 3 /\ a.name = ret.args[1] /\ ret.val = Ok(3)

\* C2: add_goal with a name that is already registered panics and changes
\* neither the name index nor the graph.
C2_DuplicateNameRejected ==
  [][(ret'.op = "add_goal" /\ ret'.args[1].name \in DOMAIN name_to_id)
       => /\ IsPanic(ret'.val)
          /\ name_to_id' = name_to_id
          /\ goal_graph' = goal_graph]_vars

\* add_goal has just rejected a goal with a parent whose name is registered
\* for a goal without one.
C2_Witness ==
  /\ ret.op = "add_goal"
  /\ IsPanic(ret.val)
  /\ ret.args[1].kind = "DefaultGoal"
  /\ \E a \in assigned :
       /\ a.name = ret.args[1].name
       /\ a.goal.kind = "RootGoal"
       /\ name_to_id[a.name] = a.id
       /\ neighbors_directed(goal_graph, a.id, "Incoming") = {}

\* C3: get_parent of a registered root goal's identifier yields no parent (it
\* returns, and names none), and get_parent of a goal returned by sub_goal
\* yields the identifier of the goal that spawned it.
C3_ParentOfRootAndChild ==
  /\ (ret.op = "get_parent"
        /\ \E a \in assigned : a.id = ret.args[1] /\ a.goal.kind = "RootGoal")
       => ~IsPanic(ret.val) /\ ~IsOk(ret.val)
  /\ (ret.op = "sub_goal" /\ ret.val[1] = "Ret")
       => get_parent(Holder, name_to_id[ret.args[2]]) = Ok(ret.args[1])

\* C4: get_goal_outcome of an identifier add_goal returned is the status
\* stored last for it, Waiting if none was; of any other identifier it is
\* the MissingGoal error.
C4_OutcomeOfRegisteredId ==
  ret.op = "get_goal_outcome"
    => ret.val = IF ret.args[1] \in AssignedIds THEN Ok(StatusOf(ret.args[1]))
                 ELSE Err(MissingGoal(ret.args[1]))

\* C5: for a registered identifier get_all_children returns the identifier
\* and everything reachable from it, whatever the iteration order, and a
\* call changes nothing in the holder and returns what the call before it
\* with the same identifier returned.
C5_AllChildrenIsClosure ==
  /\ [](/\ \A a \in assigned : \A ord \in StackOrders \cup Orders :
            get_all_children(Holder, a.id, ord)
              = Ok(Descendants(goal_graph, a.id))
        /\ (ret.op = "get_all_children" /\ ret.args[1] \in AssignedIds)
             => ret.val = Ok(Descendants(goal_graph, ret.args[1])))
  /\ [][ret'.op = "get_all_children"
          => /\ UNCHANGED holderVars
             /\ (ret.op = "get_all_children" /\ ret.args = ret'.args)
                  => ret'.val = ret.val]_vars

\* get_all_children has just returned three identifiers for a registered
\* goal whose only direct child is another goal's parent.
C5_Witness ==
  /\ ret.op = "get_all_children"
  /\ ret.args[1] \in AssignedIds
  /\ IsOk(ret.val)
  /\ Cardinality(ret.val[2]) = 3
  /\ Cardinality(neighbors_directed(goal_graph, ret.args[1], "Outgoing")) = 1

\* C6: all_children_finished of a registered identifier is Ok(TRUE) exactly
\* when the identifier and all its descendants have a Finished status.
C6_AllChildrenFinishedIff ==
  (ret.op = "all_children_finished" /\ ret.args[1] \in AssignedIds)
    => ret.val = Ok(\A c \in Descendants(goal_graph, ret.args[1]) :
                      StatusOf(c)[1] = "Finished")

\* C7: any_child_errored of a registered identifier is Ok(TRUE) exactly when
\* the identifier or one of its descendants has status Finished(Failed).
C7_AnyChildErroredIff ==
  (ret.op = "any_child_errored" /\ ret.args[1] \in AssignedIds)
    => ret.val = Ok(\E c \in Descendants(goal_graph, ret.args[1]) :
                      StatusOf(c) = Finished("Failed"))

\* C8: after set_goal_status calls, get_goal_outcome returns for every goal
\* the status of the latest call made for it.
C8_LastWriteWins ==
  \A id \in DOMAIN stored : get_goal_outcome(Holder, id) = Ok(stored[id])

\* C9: sub_goal, called for a DefaultGoal with a name that is not empty and
\* not registered, on a holder that is not poisoned, returns a child that
\* carries an identifier other than NONE: the identifier the holder was
\* about to hand out, a node of the graph, the target of an edge from the
\* spawning goal's identifier, and what get_goal_id gives for the name.
C9_SubGoalReturnsRegisteredChild ==
  [][(/\ ret'.op = "sub_goal"
      /\ ret'.args[3] = "DefaultGoal"
      /\ ret'.args[2] # ""
      /\ ret'.args[2] \notin DOMAIN name_to_id
      /\ ~poisoned)
       => /\ ret'.val[1] = "Ret"
          /\ ret'.val[2].my_id # NONE
          /\ ret'.val[2].my_id = next_id
          /\ contains_node(goal_graph', ret'.val[2].my_id)
          /\ <<ret'.args[1], ret'.val[2].my_id>> \in goal_graph'.edges
          /\ ret'.args[2] \in DOMAIN name_to_id'
          /\ name_to_id'[ret'.args[2]] = ret'.val[2].my_id]_vars

\* C10: the container's root goal is registered, without a parent, and
\* GoalContainer::all_goals returns the root's identifier and everything
\* reachable from it.
C10_ContainerRootRegistered ==
  /\ root_goal.name \in DOMAIN name_to_id
  /\ neighbors_directed(goal_graph, name_to_id[root_goal.name], "Incoming") = {}
  /\ ret.op = "GoalContainer::all_goals"
       => ret.val = Ret(Descendants(goal_graph, name_to_id[root_goal.name]))

\* C14: a set_goal_status call that succeeds has told the handler once, of
\* the goal it was called with and of the status it was called with, which is
\* the status the table then holds for the goal; a call that fails, and every
\* other operation, tells the handler nothing.
C14_HandlerToldOncePerStore ==
  /\ (ret.op = "set_goal_status" /\ IsOk(ret.val))
       => /\ ret.handled = <<<<ret.args[1], ret.args[2]>>>>
          /\ goal_id_to_status[name_to_id[ret.args[1]]] = ret.args[2]
  /\ (ret.op # "set_goal_status" \/ ~IsOk(ret.val)) => ret.handled = <<>>

\* set_goal_status has just stored Finished(Failed) for a registered goal and
\* told the handler of it.
C14_Witness ==
  /\ ret.op = "set_goal_status"
  /\ IsOk(ret.val)
  /\ ret.args[2] = Finished("Failed")
  /\ ret.handled = <<<<ret.args[1], Finished("Failed")>>>>
  /\ stored[name_to_id[ret.args[1]]] = Finished("Failed")

\* C15: finish, called for a registered goal, panics and records nothing
\* when the status is Finished(Success) and a descendant of the goal is not
\* Finished; otherwise it returns and the table holds the given status for
\* the goal.
C15_FinishRecordsOutcome ==
  (ret.op = "finish" /\ ret.args[1] \in DOMAIN name_to_id)
    => LET id == name_to_id[ret.args[1]]
           pending == \E c \in Descendants(goal_graph, id) \ {id} :
                        \/ c \notin DOMAIN goal_id_to_status
                        \/ goal_id_to_status[c][1] # "Finished"
       IN
       IF ret.args[2] = Finished("Success") /\ pending
       THEN IsPanic(ret.val)
       ELSE /\ ~IsPanic(ret.val)
            /\ id \in DOMAIN goal_id_to_status
            /\ goal_id_to_status[id] = ret.args[2]

\* C16: get_all_children, all_children_finished and any_child_errored, called
\* with an identifier add_goal has not returned, give the MissingGoal error
\* for that identifier (no panic, no partial result).
C16_UnknownIdIsMissingGoal ==
  /\ (ret.op = "get_all_children" /\ ret.args[1] \notin AssignedIds)
       => ret.val = Err(MissingGoal(ret.args[1]))
  /\ \A id \in Ids \ AssignedIds : \A ord \in Orders :
       /\ all_children_finished(Holder, id, ord) = Err(MissingGoal(id))
       /\ any_child_errored(Holder, id, ord) = Err(MissingGoal(id))

\* C18: the holder's id set, the identifiers of the name index and the nodes
\* of the graph are each the set of identifiers add_goal has returned, and
\* all_goals returns that set.
C18_RegistryConsistent ==
  /\ all_ids = AssignedIds
  /\ {name_to_id[n] : n \in DOMAIN name_to_id} = AssignedIds
  /\ goal_graph.nodes = AssignedIds
  /\ ret.op = "all_goals" => ret.val = Ret(AssignedIds)

\* C11: in sub_goal a thread that requests or holds the write guard holds no
\* read guard; the configuration callback runs while the thread holds a read
\* guard and no write guard is out; add_goal runs while the thread holds the
\* only guard, the write guard.
C11_ReadAndWritePhasesDisjoint ==
  \A t \in Threads :
    /\ pc[t] \in {"write", "add_goal", "return"} => t \notin rwlock.readers
    /\ pc[t] = "configure" => t \in rwlock.readers /\ rwlock.writer = {}
    /\ pc[t] = "add_goal" => rwlock.writer = {t} /\ rwlock.readers = {}

\* One thread has released its read guard and asks for the write guard
\* while another thread runs its configuration callback under a read guard.
C11_Witness ==
  \E t, u \in Threads :
    /\ pc[t] = "write"
    /\ pc[u] = "configure"
    /\ rwlock.readers = {u}

\* C12: a child registered by sub_goal gets the identifier the counter holds
\* when its add_goal runs under the write guard, an identifier larger than
\* every identifier handed out before, whenever the child was built; no two
\* registrations share an identifier.
C12_IdsFollowRegistrationOrder ==
  /\ [](\A a, b \in assigned : a.id = b.id => a = b)
  /\ [][\A t \in Threads :
          (pc[t] = "add_goal" /\ pc'[t] = "return")
            => /\ assigned' = assigned \cup {Registered(child[t], next_id)}
               /\ \A b \in assigned : b.id < next_id
               /\ next_id' = next_id + 1]_vars

\* A thread has registered its child with identifier 2 although it built the
\* child before the goal with identifier 1 was registered.
C12_Witness ==
  \E t \in Threads :
    /\ pc[t] = "return"
    /\ raced
    /\ Registered(child[t], 2) \in assigned
    /\ \E a \in assigned : a.id = 1

\* C13: of the sub_goal calls that spawn children with one name, the first to
\* run add_goal registers its child; every later one panics in add_goal with
\* "Goal Already Exists" and leaves the name index as it is, so the name
\* stays with the first identifier and is registered once.
C13_OneOfEqualNamesRegisters ==
  /\ [](\A a, b \in assigned :
          /\ a.name = b.name => a = b
          /\ get_goal_id(Holder, a.name) = Ok(a.id))
  /\ [][\A t \in Threads :
          (pc[t] = "add_goal" /\ pc'[t] # "add_goal")
            => IF child[t].name \in DOMAIN name_to_id
               THEN /\ pc'[t] = "idle"
                    /\ ret'.val = Panic("Goal Already Exists")
                    /\ ret'.args[2] = child[t].name
                    /\ name_to_id' = name_to_id
                    /\ assigned' = assigned
               ELSE /\ pc'[t] = "return"
                    /\ name_to_id'[child[t].name] = next_id]_vars

\* A thread's call has just panicked on a name that the other thread
\* registered, with identifier 1, after this thread had built its child.
C13_Witness ==
  /\ ret.op = "sub_goal"
  /\ ret.val = Panic("Goal Already Exists")
  /\ raced
  /\ Cardinality(assigned) = 1
  /\ name_to_id[ret.args[2]] = 1

C19_PoisonedHolderFailsFast ==
  /\ []((ret.op = "sub_goal" /\ ret.val = Panic("Goal Already Exists"))
          => poisoned)
  /\ [][poisoned
          => /\ poisoned'
             /\ UNCHANGED <<holderVars, assigned, rwlock>>
             /\ ret' # ret => IsPanic(ret'.val)
             /\ \A t \in Threads :
                  (pc[t] \in {"read", "write"} /\ pc'[t] # pc[t])
                    => /\ pc'[t] = "idle"
                       /\ ret'.val = Panic("Failed to get holder (poisoned)")
                       /\ ret'.args[2] = child[t].name]_vars

\* The lock is poisoned, one goal is registered, and a call has just
\* panicked on asking for a guard.
C19_Witness ==
  /\ poisoned
  /\ Cardinality(assigned) = 1
  /\ ret.op = "sub_goal"
  /\ ret.val = Panic("Failed to get holder (poisoned)")

\* C20: under a fair lock every sub_goal call ends: a thread that is inside
\* a call is outside it again later.
C20_SubGoalCompletes ==
  \A t \in Threads : (pc[t] # "idle") ~> (pc[t] = "idle")

\* A thread waits for the write guard while another thread holds a read
\* guard.
C20_Witness ==
  \E t, u \in Threads :
    /\ t # u
    /\ pc[t] = "write"
    /\ u \in rwlock.readers

====
